---- MODULE Spec2Model ----
(***************************************************************************)
(* Model of get_target_date (Momemtum Template/HelperInfra.py): the date   *)
(* resolver that turns a reference date, a pattern string and a query type *)
(* into a calendar date.  Strings are sequences of one-character strings,  *)
(* so that split('/'), endswith, slicing and int() are modelled by what    *)
(* they do on the characters.                                              *)
(***************************************************************************)
EXTENDS Integers, Sequences, FiniteSets, TLC

VARIABLES start_date, pattern, query_type, pc, month_offset, day_of_week,
          week_pos, is_first_day, year, month, steps, shifted,
          day_occurrences, fallback, outcome

vars == <<start_date, pattern, query_type, pc, month_offset, day_of_week,
          week_pos, is_first_day, year, month, steps, shifted,
          day_occurrences, fallback, outcome>>

(* ---------------------------- bounds ----------------------------------- *)

\* month offsets written in the well-formed patterns range over -MaxOffset..MaxOffset
MaxOffset == 13

(* ------------------------- characters and int() ------------------------ *)

Digits == <<"0", "1", "2", "3", "4", "5", "6", "7", "8", "9">>

DigitSet == {Digits[i] : i \in 1..10}

DigitVal(c) == (CHOOSE i \in 1..10 : Digits[i] = c) - 1

RECURSIVE LStrip(_)
LStrip(s) == IF s # <<>> /\ Head(s) = " " THEN LStrip(Tail(s)) ELSE s

RECURSIVE RStrip(_)
RStrip(s) ==
    IF s # <<>> /\ s[Len(s)] = " " THEN RStrip(SubSeq(s, 1, Len(s) - 1)) ELSE s

\* str.strip() as int() applies it before reading the literal
Strip(s) == RStrip(LStrip(s))

\* the literal without its optional sign
Unsigned(s) ==
    LET t == Strip(s)
    IN  IF t # <<>> /\ t[1] \in {"+", "-"} THEN Tail(t) ELSE t

\* int(s) succeeds: optional blanks, optional sign, digits, single
\* underscores only between digits
int_ok(s) ==
    LET b == Unsigned(s)
    IN  /\ b # <<>>
        /\ \A i \in 1..Len(b) : b[i] \in DigitSet \cup {"_"}
        /\ b[1] # "_"
        /\ b[Len(b)] # "_"
        /\ \A i \in 1..(Len(b) - 1) : ~(b[i] = "_" /\ b[i + 1] = "_")

RECURSIVE DigitsValue(_, _)
DigitsValue(b, acc) ==
    IF b = <<>> THEN acc
    ELSE IF Head(b) = "_" THEN DigitsValue(Tail(b), acc)
    ELSE DigitsValue(Tail(b), 10 * acc + DigitVal(Head(b)))

\* the value of int(s) when int_ok(s)
int_value(s) ==
    LET t == Strip(s)
        v == DigitsValue(Unsigned(s), 0)
    IN  IF t[1] = "-" THEN 0 - v ELSE v

RECURSIVE SplitFrom(_, _, _)
SplitFrom(s, sep, cur) ==
    IF s = <<>> THEN <<cur>>
    ELSE IF Head(s) = sep THEN <<cur>> \o SplitFrom(Tail(s), sep, <<>>)
    ELSE SplitFrom(Tail(s), sep, Append(cur, Head(s)))

\* pattern.split('/'): the fields between the separators, empty ones kept
split(s, sep) == SplitFrom(s, sep, <<>>)

\* pattern.endswith(c) for a one-character suffix
endswith(s, c) == s # <<>> /\ s[Len(s)] = c

\* pattern[:-1]
AllButLast(s) == IF s = <<>> THEN <<>> ELSE SubSeq(s, 1, Len(s) - 1)

(* --------------------------- calendar ---------------------------------- *)

\* datetime.MINYEAR and datetime.MAXYEAR: the years datetime(...) accepts
MINYEAR == 1

MAXYEAR == 9999

\* calendar.isleap
isleap(y) == y % 4 = 0 /\ (y % 100 # 0 \/ y % 400 = 0)

\* calendar.mdays (index 0 unused in the source)
mdays == <<31, 28, 31, 30, 31, 30, 31, 31, 30, 31, 30, 31>>

\* days in all the years before year y (datetime's proleptic Gregorian ordinal)
DaysBeforeYear(y) ==
    LET p == y - 1
    IN  p * 365 + (p \div 4) - (p \div 100) + (p \div 400)

RECURSIVE DaysBeforeMonth(_, _)
DaysBeforeMonth(y, m) ==
    IF m = 1 THEN 0
    ELSE DaysBeforeMonth(y, m - 1) + mdays[m - 1]
         + (IF m - 1 = 2 /\ isleap(y) THEN 1 ELSE 0)

\* date(y, m, d).toordinal()
toordinal(y, m, d) == DaysBeforeYear(y) + DaysBeforeMonth(y, m) + d

\* calendar.weekday: 0 = Monday .. 6 = Sunday; years datetime cannot hold
\* are folded into the 400-year cycle
weekday(y, m, d) ==
    LET yy == IF y < MINYEAR \/ y > MAXYEAR THEN 2000 + (y % 400) ELSE y
    IN  (toordinal(yy, m, d) + 6) % 7

\* monthrange without the leap-day term
monthrangeNoLeap(y, m) == <<weekday(y, m, 1), mdays[m]>>

\* calendar.monthrange: <<weekday of day 1, number of days>>
monthrange(y, m) ==
    <<weekday(y, m, 1), mdays[m] + (IF m = 2 /\ isleap(y) THEN 1 ELSE 0)>>

\* the month grid with Sunday-first weeks (firstweekday = 6)
monthcalendarSundayFirst(y, m) ==
    LET day1   == monthrange(y, m)[1]
        ndays  == monthrange(y, m)[2]
        before == (day1 - 6) % 7
        after  == (6 - day1 - ndays) % 7
        days   == [i \in 1..(before + ndays + after) |->
                      IF i <= before \/ i > before + ndays THEN 0 ELSE i - before]
    IN  [w \in 1..(Len(days) \div 7) |-> SubSeq(days, 7 * (w - 1) + 1, 7 * w)]

\* calendar.monthcalendar with firstweekday = 0: full Monday-first weeks,
\* days outside the month are 0
monthcalendar(y, m) ==
    LET day1   == monthrange(y, m)[1]
        ndays  == monthrange(y, m)[2]
        before == day1 % 7
        after  == (0 - day1 - ndays) % 7
        days   == [i \in 1..(before + ndays + after) |->
                      IF i <= before \/ i > before + ndays THEN 0 ELSE i - before]
    IN  [w \in 1..(Len(days) \div 7) |-> SubSeq(days, 7 * (w - 1) + 1, 7 * w)]

(* ------------------------ get_adjusted_year_month ---------------------- *)

RECURSIVE WhileUnderflowLt(_, _, _)
\* the first loop with "while month < 0"
WhileUnderflowLt(y, m, n) ==
    IF m < 0 THEN WhileUnderflowLt(y - 1, m + 12, n + 1)
    ELSE [year |-> y, month |-> m, steps |-> n]

RECURSIVE WhileUnderflow(_, _, _)
WhileUnderflow(y, m, n) ==
    IF m <= 0 THEN WhileUnderflow(y - 1, m + 12, n + 1)
    ELSE [year |-> y, month |-> m, steps |-> n]

RECURSIVE WhileOverflowYearDown(_, _, _)
\* the second loop with the first loop's "year -= 1" left in
WhileOverflowYearDown(y, m, n) ==
    IF m > 12 THEN WhileOverflowYearDown(y - 1, m - 12, n + 1)
    ELSE [year |-> y, month |-> m, steps |-> n]

RECURSIVE WhileOverflow(_, _, _)
WhileOverflow(y, m, n) ==
    IF m > 12 THEN WhileOverflow(y + 1, m - 12, n + 1)
    ELSE [year |-> y, month |-> m, steps |-> n]

\* the helper of get_target_date; steps counts the loop iterations taken
get_adjusted_year_month(y, m, offset) ==
    LET u == WhileUnderflow(y, m + offset, 0)
    IN  WhileOverflow(u.year, u.month, u.steps)

(* ---------------------- kind-1 occurrence list ------------------------- *)

RECURSIVE CollectOccurrencesNoConvert(_, _)
\* the loop indexing the week by the 1-based day number
CollectOccurrencesNoConvert(c, dow) ==
    IF c = <<>> THEN <<>>
    ELSE (IF Head(c)[dow + 2] # 0 THEN <<Head(c)[dow + 2]>> ELSE <<>>)
         \o CollectOccurrencesNoConvert(Tail(c), dow)

RECURSIVE CollectOccurrences(_, _)
\* for week in c: if week[day_of_week] != 0: day_occurrences.append(...)
CollectOccurrences(c, dow) ==
    IF c = <<>> THEN <<>>
    ELSE (IF Head(c)[dow + 1] # 0 THEN <<Head(c)[dow + 1]>> ELSE <<>>)
         \o CollectOccurrences(Tail(c), dow)

\* the index without the conversion to 0-based
week_indexOneBased(wp) == int_value(wp)

\* week_index = int(week_pos) - 1
week_index(wp) == int_value(wp) - 1

\* the conditional of line 80 takes its else branch
TakesFallback(occ, wp) == wp # <<"L">> /\ ~(Len(occ) > week_index(wp))

\* lines 76-80: the selected day, 0 when indexing raises IndexError
target_day(occ, wp) ==
    IF occ = <<>> THEN 0
    ELSE IF wp = <<"L">> THEN occ[Len(occ)]
    ELSE IF Len(occ) > week_index(wp) THEN occ[week_index(wp) + 1]
    ELSE occ[Len(occ)]

(* ------------------------------ inputs --------------------------------- *)

RECURSIVE NatToStr(_)
NatToStr(n) ==
    IF n < 10 THEN <<Digits[n + 1]>>
    ELSE Append(NatToStr(n \div 10), Digits[(n % 10) + 1])

\* the decimal text of an integer, as a caller writes the month offset
IntToStr(n) == IF n < 0 THEN <<"-">> \o NatToStr(0 - n) ELSE NatToStr(n)

Join3(a, b, c) == a \o <<"/">> \o b \o <<"/">> \o c

OffsetTexts == {IntToStr(o) : o \in (0 - MaxOffset)..MaxOffset}

\* Type 1 patterns "M/D/W" of the documented shape
WellFormedType1 ==
    {Join3(o, <<Digits[d + 1]>>, w) :
        o \in OffsetTexts, d \in 1..5, w \in {<<"1">>, <<"2">>, <<"3">>, <<"L">>}}

\* Type 2 patterns "MF" / "ML" of the documented shape
WellFormedType2 == {o \o <<e>> : o \in OffsetTexts, e \in {"F", "L"}}

\* month-offset texts int() accepts in unusual spellings, and texts it rejects
OddOffsets ==
    {<<"0">>, <<"+", "1">>, <<" ", "2">>, <<"1", "_", "2">>, <<"0", "3">>,
     <<>>, <<"x">>, <<"-">>, <<"1", "_">>, <<"1", ".", "5">>}

OddDays ==
    {<<"3">>, <<" ", "4">>, <<"0", "5">>, <<"0">>, <<"6">>, <<"-", "1">>,
     <<>>, <<"x">>}

OddWeeks == {<<"1">>, <<"L">>, <<"4">>, <<"0">>, <<>>, <<"l">>, <<" ", "1">>, <<"F">>}

\* strings that are not three fields
WrongFieldCount ==
    {<<>>, <<"0">>, <<"/">>, <<"0", "/", "1">>, <<"/", "/">>,
     <<"0", "/", "1", "/", "1", "/">>, <<"0", "/", "1", "/", "1", "/", "1">>}

OddType1 == {Join3(o, d, w) : o \in OddOffsets, d \in OddDays, w \in OddWeeks}

OddType2 == {o \o e : o \in OddOffsets, e \in {<<"F">>, <<"L">>, <<>>, <<"f">>, <<"F", "L">>}}

Patterns == WellFormedType1 \cup WellFormedType2 \cup OddType1 \cup OddType2
            \cup WrongFieldCount

\* reference years: next to both ends of datetime's range, an ordinary leap
\* year, a leap century and a non-leap century
RefYears == {1, 2000, 2024, 2100, 9999}

RefDates == [year : RefYears, month : 1..12, day : {20}]

QueryTypes == 0..3

(* --------------------------- state machine ----------------------------- *)

NoOutcome == [tag |-> "none", site |-> "", year |-> 0, month |-> 0, day |-> 0]

Raise(where) == [tag |-> "error", site |-> where, year |-> 0, month |-> 0, day |-> 0]

Return(y, m, d) == [tag |-> "date", site |-> "", year |-> y, month |-> m, day |-> d]

\* a date constructor that checks only the lower end of the year range
datetimeNoUpper(y, m, d) ==
    IF y < MINYEAR \/ d < 1 \/ d > monthrange(y, m)[2]
    THEN Raise("datetime")
    ELSE Return(y, m, d)

\* datetime(y, m, d): ValueError outside MINYEAR..MAXYEAR
datetime(y, m, d) ==
    IF y < MINYEAR \/ y > MAXYEAR \/ d < 1 \/ d > monthrange(y, m)[2]
    THEN Raise("datetime")
    ELSE Return(y, m, d)

Init ==
    /\ start_date \in RefDates
    /\ pattern \in Patterns
    /\ query_type \in QueryTypes
    /\ pc = "check_query_type"
    /\ month_offset = 0
    /\ day_of_week = 0
    /\ week_pos = <<>>
    /\ is_first_day = FALSE
    /\ year = 0
    /\ month = 0
    /\ steps = 0
    /\ shifted = FALSE
    /\ day_occurrences = <<>>
    /\ fallback = FALSE
    /\ outcome = NoOutcome

\* the check written as a range test that lets 3 through
query_type_okUpTo3(q) == q \in 1..3

\* query_type in [1, 2]
query_type_ok(q) == q \in {1, 2}

\* lines 32-33, then the dispatch of lines 48 / 84
CheckQueryType ==
    /\ pc = "check_query_type"
    /\ IF ~query_type_ok(query_type)
       THEN /\ outcome' = Raise("query_type")
            /\ pc' = "done"
       ELSE /\ outcome' = outcome
            /\ pc' = IF query_type = 1 THEN "parse_type1" ELSE "parse_type2"
    /\ UNCHANGED <<start_date, pattern, query_type, month_offset, day_of_week,
                   week_pos, is_first_day, year, month, steps, shifted,
                   day_occurrences, fallback>>

\* the range check applied to the already decremented day_of_week
Type1ErrorDecremented(p) ==
    LET f == split(p, "/")
    IN  IF Len(f) # 3 THEN "unpack"
        ELSE IF ~int_ok(f[1]) THEN "int_month_offset"
        ELSE IF ~int_ok(f[2]) THEN "int_day_of_week"
        ELSE IF ~(1 <= int_value(f[2]) - 1 /\ int_value(f[2]) - 1 <= 5) THEN "day_range"
        ELSE IF f[3] \notin {<<"1">>, <<"2">>, <<"3">>, <<"L">>} THEN "week_pos"
        ELSE ""

\* the raise site of the try block of lines 49-60, "" when it completes
Type1Error(p) ==
    LET f == split(p, "/")
    IN  IF Len(f) # 3 THEN "unpack"
        ELSE IF ~int_ok(f[1]) THEN "int_month_offset"
        ELSE IF ~int_ok(f[2]) THEN "int_day_of_week"
        ELSE IF ~(1 <= (int_value(f[2]) - 1) + 1 /\ (int_value(f[2]) - 1) + 1 <= 5)
             THEN "day_range"
        ELSE IF f[3] \notin {<<"1">>, <<"2">>, <<"3">>, <<"L">>} THEN "week_pos"
        ELSE ""

ParseType1 ==
    /\ pc = "parse_type1"
    /\ IF Type1Error(pattern) # ""
       THEN /\ outcome' = Raise(Type1Error(pattern))
            /\ pc' = "done"
            /\ UNCHANGED <<month_offset, day_of_week, week_pos>>
       ELSE /\ month_offset' = int_value(split(pattern, "/")[1])
            /\ day_of_week' = int_value(split(pattern, "/")[2]) - 1
            /\ week_pos' = split(pattern, "/")[3]
            /\ pc' = "shift"
            /\ outcome' = outcome
    /\ UNCHANGED <<start_date, pattern, query_type, is_first_day, year, month,
                   steps, shifted, day_occurrences, fallback>>

\* int() applied to the whole pattern instead of pattern[:-1]
Type2ErrorNoSlice(p) ==
    IF ~(endswith(p, "F") \/ endswith(p, "L")) THEN "suffix"
    ELSE IF ~int_ok(p) THEN "int_prefix"
    ELSE ""

\* the raise site of the try block of lines 85-93, "" when it completes
Type2Error(p) ==
    IF ~(endswith(p, "F") \/ endswith(p, "L")) THEN "suffix"
    ELSE IF ~int_ok(AllButLast(p)) THEN "int_prefix"
    ELSE ""

ParseType2 ==
    /\ pc = "parse_type2"
    /\ IF Type2Error(pattern) # ""
       THEN /\ outcome' = Raise(Type2Error(pattern))
            /\ pc' = "done"
            /\ UNCHANGED <<month_offset, is_first_day>>
       ELSE /\ month_offset' = int_value(AllButLast(pattern))
            /\ is_first_day' = endswith(pattern, "F")
            /\ pc' = "shift"
            /\ outcome' = outcome
    /\ UNCHANGED <<start_date, pattern, query_type, day_of_week, week_pos, year,
                   month, steps, shifted, day_occurrences, fallback>>

\* lines 63 / 96: year, month = get_adjusted_year_month(...)
Shift ==
    /\ pc = "shift"
    /\ LET r == get_adjusted_year_month(start_date.year, start_date.month, month_offset)
       IN  /\ year' = r.year
           /\ month' = r.month
           /\ steps' = r.steps
    /\ shifted' = TRUE
    /\ pc' = IF query_type = 1 THEN "resolve_type1" ELSE "resolve_type2"
    /\ UNCHANGED <<start_date, pattern, query_type, month_offset, day_of_week,
                   week_pos, is_first_day, day_occurrences, fallback, outcome>>

\* lines 64-82
ResolveType1 ==
    /\ pc = "resolve_type1"
    /\ IF datetime(year, month, 1).tag = "error"
       THEN /\ outcome' = datetime(year, month, 1)
            /\ UNCHANGED <<day_occurrences, fallback>>
       ELSE LET occ == CollectOccurrences(monthcalendar(year, month), day_of_week)
            IN  /\ day_occurrences' = occ
                /\ fallback' = (occ # <<>> /\ TakesFallback(occ, week_pos))
                /\ outcome' = IF occ = <<>> THEN Raise("index")
                              ELSE datetime(year, month, target_day(occ, week_pos))
    /\ pc' = "done"
    /\ UNCHANGED <<start_date, pattern, query_type, month_offset, day_of_week,
                   week_pos, is_first_day, year, month, steps, shifted>>

\* lines 98-103
ResolveType2 ==
    /\ pc = "resolve_type2"
    /\ outcome' = IF is_first_day THEN datetime(year, month, 1)
                  ELSE datetime(year, month, monthrange(year, month)[2])
    /\ pc' = "done"
    /\ UNCHANGED <<start_date, pattern, query_type, month_offset, day_of_week,
                   week_pos, is_first_day, year, month, steps, shifted,
                   day_occurrences, fallback>>

Next ==
    \/ CheckQueryType
    \/ ParseType1
    \/ ParseType2
    \/ Shift
    \/ ResolveType1
    \/ ResolveType2

Spec == Init /\ [][Next]_vars

(* ------------------- vocabulary of the properties ---------------------- *)

Finished == pc = "done"

ReturnedDate == Finished /\ outcome.tag = "date"

\* the error kinds of the design, by the statement that raises
ErrorKind(site) ==
    CASE site = "query_type" -> "InvalidArgument"
      [] site \in {"unpack", "suffix"} -> "FormatError"
      [] site \in {"int_month_offset", "int_day_of_week", "int_prefix"} -> "ParseError"
      [] site \in {"day_range", "week_pos"} -> "ValidationError"
      [] OTHER -> "Other"

Failed(kind) ==
    Finished /\ outcome.tag = "error" /\ ErrorKind(outcome.site) = kind

\* nothing of the date arithmetic has run
NoDateArithmetic ==
    ~shifted /\ year = 0 /\ month = 0 /\ steps = 0 /\ day_occurrences = <<>>

\* floor-division closed form of the month shift
ClosedFormYear(y, m, offset) == y + ((m - 1 + offset) \div 12)

ClosedFormMonth(m, offset) == ((m - 1 + offset) % 12) + 1

Abs(n) == IF n < 0 THEN 0 - n ELSE n

\* Gregorian rules written out: leap years and month lengths
GregorianLeap(y) == (y % 400 = 0) \/ (y % 4 = 0 /\ y % 100 # 0)

GregorianDays(y, m) ==
    IF m \in {4, 6, 9, 11} THEN 30
    ELSE IF m = 2 THEN (IF GregorianLeap(y) THEN 29 ELSE 28)
    ELSE 31

\* Zeller's congruence, turned to 0 = Monday .. 6 = Sunday
ZellerWeekday(y, m, d) ==
    LET mm == IF m < 3 THEN m + 12 ELSE m
        yy == IF m < 3 THEN y - 1 ELSE y
        K  == yy % 100
        J  == yy \div 100
        h  == (d + ((13 * (mm + 1)) \div 5) + K + (K \div 4) + (J \div 4) + 5 * J) % 7
    IN  (h + 5) % 7

\* the days of month (y, m) that fall on weekday wd (0 = Monday)
DaysOnWeekday(y, m, wd) ==
    {d \in 1..GregorianDays(y, m) : ZellerWeekday(y, m, d) = wd}

SetMax(S) == CHOOSE x \in S : \A z \in S : z <= x

(* ---------------------------- properties ------------------------------- *)

\* C1: whenever a Type 1 call returns a date, that date falls on the
\* requested weekday (1 = Monday .. 5 = Friday) and lies in the year and
\* month obtained by shifting the reference month by the pattern's offset.
C1_WeekdayAndMonth ==
    (query_type = 1 /\ ReturnedDate) =>
        /\ ZellerWeekday(outcome.year, outcome.month, outcome.day) + 1 = day_of_week + 1
        /\ day_of_week + 1 \in 1..5
        /\ outcome.year = ClosedFormYear(start_date.year, start_date.month, month_offset)
        /\ outcome.month = ClosedFormMonth(start_date.month, month_offset)
        /\ \/ split(pattern, "/")[1] = IntToStr(month_offset)
           \/ split(pattern, "/")[1] \in OddOffsets
        /\ \/ split(pattern, "/")[2] = <<Digits[day_of_week + 2]>>
           \/ split(pattern, "/")[2] \in OddDays

C1_Witness ==
    /\ query_type = 1
    /\ ReturnedDate
    /\ pattern = <<"-", "3", "/", "5", "/", "L">>
    /\ start_date.year = 2024
    /\ start_date.month = 2
    /\ outcome.year = 2023
    /\ outcome.month = 11
    /\ outcome.day = 24

\* C2: whenever a Type 2 call returns a date, it lies in the shifted target
\* month; its day is 1 for suffix F and the number of days of that month
\* (28, 29, 30 or 31, February 29 exactly in leap years) for suffix L.
C2_EdgeOfMonth ==
    (query_type = 2 /\ ReturnedDate) =>
        /\ outcome.year = ClosedFormYear(start_date.year, start_date.month, month_offset)
        /\ outcome.month = ClosedFormMonth(start_date.month, month_offset)
        /\ pattern[Len(pattern)] = "F" => outcome.day = 1
        /\ pattern[Len(pattern)] = "L" =>
               /\ outcome.day = GregorianDays(outcome.year, outcome.month)
               /\ outcome.day \in 28..31
               /\ (outcome.day = 29 <=> (outcome.month = 2 /\ GregorianLeap(outcome.year)))

C2_Witness ==
    /\ query_type = 2
    /\ ReturnedDate
    /\ pattern = <<"-", "1", "L">>
    /\ start_date.year = 2024
    /\ start_date.month = 3
    /\ outcome.day = 29

\* C7: shifting the reference (year, month) by the offset and then shifting
\* the result by the negated offset gives back the reference (year, month).
C7_RoundTrip ==
    shifted =>
        LET back == get_adjusted_year_month(year, month, 0 - month_offset)
        IN  /\ back.year = start_date.year
            /\ back.month = start_date.month

C7_Witness ==
    /\ shifted
    /\ month_offset = 0 - MaxOffset
    /\ start_date.month = 1
    /\ year = start_date.year - 2
    /\ month = 12

\* C8: the two loops end with the floor-division closed form: year +
\* floor(total / 12) and (total mod 12) + 1 for total = month - 1 + offset,
\* so the month is in 1..12, after at most |offset| / 12 + 1 iterations.
C8_ClosedForm ==
    shifted =>
        /\ year = ClosedFormYear(start_date.year, start_date.month, month_offset)
        /\ month = ClosedFormMonth(start_date.month, month_offset)
        /\ month \in 1..12
        /\ steps <= (Abs(month_offset) \div 12) + 1
        /\ (start_date.month = 1 /\ month_offset = 0 - 1) =>
               (year = start_date.year - 1 /\ month = 12)
        /\ (start_date.month = 12 /\ month_offset = 1) =>
               (year = start_date.year + 1 /\ month = 1)

C8_Witness ==
    /\ shifted
    /\ start_date.month = 12
    /\ month_offset = MaxOffset
    /\ steps = 2
    /\ year = start_date.year + 2

\* C3 as stated: every call whose pattern passed parsing and validation
\* returns a date, whatever the offset.
C3_TotalAsStated ==
    (Finished /\ query_type \in {1, 2} /\ shifted) => outcome.tag = "date"

\* C3 amended: a call whose pattern passed parsing and validation returns a
\* date exactly when the shifted year lies in MINYEAR..MAXYEAR (1..9999), and
\* otherwise ends in the ValueError of the date constructor.
C3_TotalWithinYearRange ==
    (Finished /\ query_type \in {1, 2} /\ shifted) =>
        LET ty == ClosedFormYear(start_date.year, start_date.month, month_offset)
        IN  /\ (ty \in 1..9999) => outcome.tag = "date"
            /\ (ty \notin 1..9999) => (outcome.tag = "error" /\ outcome.site = "datetime")

C3_Witness ==
    /\ Finished
    /\ query_type = 1
    /\ shifted
    /\ start_date.year = 9999
    /\ start_date.month = 12
    /\ month_offset = 0
    /\ outcome.tag = "date"
    /\ outcome.year = 9999

\* C4: with a query type other than 1 and 2 the call ends in InvalidArgument
\* for every pattern, and neither parsing nor date arithmetic is performed.
C4_InvalidQueryType ==
    (query_type \notin {1, 2}) =>
        /\ pc \in {"check_query_type", "done"}
        /\ Finished => Failed("InvalidArgument")
        /\ NoDateArithmetic
        /\ month_offset = 0 /\ week_pos = <<>> /\ day_of_week = 0 /\ ~is_first_day

C4_Witness ==
    /\ query_type = 3
    /\ pattern = <<"x", "/", "6", "/", "l">>
    /\ Failed("InvalidArgument")

\* the positions of the slashes of a string, and the text around the first two
SlashAt(p) == {i \in 1..Len(p) : p[i] = "/"}

SetMin(S) == CHOOSE x \in S : \A z \in S : x <= z

FirstSlash(p) == SetMin(SlashAt(p))

SecondSlash(p) == SetMax(SlashAt(p))

OffsetField(p) == SubSeq(p, 1, FirstSlash(p) - 1)

WeekdayField(p) == SubSeq(p, FirstSlash(p) + 1, SecondSlash(p) - 1)

OrdinalField(p) == SubSeq(p, SecondSlash(p) + 1, Len(p))

OrdinalTokens == {<<"1">>, <<"2">>, <<"3">>, <<"L">>}

\* C5: a Type 1 pattern that is not exactly three slash-separated fields ends
\* in FormatError; with three fields, an offset int() rejects ends in
\* ParseError (as does a weekday int() rejects); with both integers, a
\* weekday outside 1..5 or an ordinal other than "1", "2", "3", "L" ends in
\* ValidationError; every rejection precedes the month shift and returns no
\* date; every other pattern is accepted and goes on to the month shift.
C5_Type1Validation ==
    (query_type = 1 /\ Finished) =>
        IF Cardinality(SlashAt(pattern)) # 2
        THEN Failed("FormatError") /\ NoDateArithmetic
        ELSE IF ~int_ok(OffsetField(pattern))
        THEN Failed("ParseError") /\ outcome.site = "int_month_offset" /\ NoDateArithmetic
        ELSE IF ~int_ok(WeekdayField(pattern))
        THEN Failed("ParseError") /\ outcome.site = "int_day_of_week" /\ NoDateArithmetic
        ELSE IF \/ int_value(WeekdayField(pattern)) \notin 1..5
                \/ OrdinalField(pattern) \notin OrdinalTokens
        THEN Failed("ValidationError") /\ NoDateArithmetic
        ELSE /\ shifted
             /\ ErrorKind(outcome.site) = "Other"
             /\ month_offset = int_value(OffsetField(pattern))
             /\ day_of_week + 1 = int_value(WeekdayField(pattern))
             /\ week_pos = OrdinalField(pattern)

C5_Witness ==
    /\ query_type = 1
    /\ pattern = <<"+", "1", "/", "0", "5", "/", "4">>
    /\ Failed("ValidationError")
    /\ outcome.site = "week_pos"
    /\ NoDateArithmetic

\* C6: a Type 2 pattern that is empty or does not end in F or L ends in
\* FormatError; one ending in F or L whose prefix (possibly empty) int()
\* rejects ends in ParseError; neither returns a date; an integer prefix
\* followed by F or L is accepted.
C6_Type2Validation ==
    (query_type = 2 /\ Finished) =>
        IF pattern = <<>> \/ pattern[Len(pattern)] \notin {"F", "L"}
        THEN Failed("FormatError") /\ outcome.site = "suffix" /\ NoDateArithmetic
        ELSE IF ~int_ok(SubSeq(pattern, 1, Len(pattern) - 1))
        THEN Failed("ParseError") /\ outcome.site = "int_prefix" /\ NoDateArithmetic
        ELSE /\ shifted
             /\ ErrorKind(outcome.site) = "Other"
             /\ month_offset = int_value(SubSeq(pattern, 1, Len(pattern) - 1))
             /\ is_first_day = (pattern[Len(pattern)] = "F")

C6_Witness ==
    /\ query_type = 2
    /\ pattern = <<"L">>
    /\ Failed("ParseError")
    /\ NoDateArithmetic

\* the ordinal a token asks for
OrdinalOf(w) == CASE w = <<"1">> -> 1 [] w = <<"2">> -> 2 [] w = <<"3">> -> 3 [] OTHER -> 0

\* the selection rule on a non-empty ascending list
Selected(occ, w) ==
    IF w = <<"L">> \/ Len(occ) < OrdinalOf(w) THEN occ[Len(occ)] ELSE occ[OrdinalOf(w)]

\* C9: the Type 1 result is the last day of the month on the requested
\* weekday for ordinal L and the k-th such day for ordinal k; applied to a
\* list with fewer than k elements the selection gives the last element,
\* the same as ordinal L.
C9_OrdinalSelection ==
    (query_type = 1 /\ ReturnedDate) =>
        LET days == DaysOnWeekday(outcome.year, outcome.month, day_of_week)
        IN  /\ outcome.day \in days
            /\ week_pos = <<"L">> => outcome.day = SetMax(days)
            /\ week_pos # <<"L">> =>
                   Cardinality({d \in days : d <= outcome.day}) = OrdinalOf(week_pos)
            /\ outcome.day = Selected(day_occurrences, week_pos)
            /\ \A n \in 1..Len(day_occurrences) : \A w \in OrdinalTokens :
                   LET shorter == SubSeq(day_occurrences, 1, n)
                   IN  /\ target_day(shorter, w) = Selected(shorter, w)
                       /\ TakesFallback(shorter, w) <=> (w # <<"L">> /\ n < OrdinalOf(w))
                       /\ TakesFallback(shorter, w) =>
                              target_day(shorter, w) = target_day(shorter, <<"L">>)

C9_Witness ==
    /\ query_type = 1
    /\ ReturnedDate
    /\ week_pos = <<"3">>
    /\ Len(day_occurrences) = 4
    /\ outcome.day = day_occurrences[3]
    /\ outcome.day # day_occurrences[4]

\* C10: the occurrence list built from the Monday-first month grid is
\* strictly ascending, holds exactly the days of the target month on the
\* requested weekday, has 4 or 5 elements, and the selection never takes the
\* fallback branch nor fails to index.
C10_OccurrenceList ==
    (query_type = 1 /\ Finished /\ shifted /\ outcome.site # "datetime") =>
        /\ \A i \in 1..(Len(day_occurrences) - 1) : day_occurrences[i] < day_occurrences[i + 1]
        /\ {day_occurrences[i] : i \in 1..Len(day_occurrences)}
               = DaysOnWeekday(year, month, day_of_week)
        /\ Len(day_occurrences) \in {4, 5}
        /\ ~fallback
        /\ outcome.tag = "date"

C10_Witness ==
    /\ query_type = 1
    /\ ReturnedDate
    /\ year = 2024
    /\ month = 2
    /\ day_of_week = 3
    /\ day_occurrences = <<1, 8, 15, 22, 29>>
    /\ week_pos = <<"3">>

====
